---------------------------- MODULE Spec2Model ----------------------------
(***************************************************************************)
(* VIN validation utilities (lib/vin-validation): transliterate,           *)
(* computeVINCheckDigit, isValidVIN and extractVIN, modelled as operators  *)
(* over JavaScript values, and a state machine whose actions call them;    *)
(* and the barcode scanning life cycle of the VINScanner component         *)
(* (components/VINScanner.tsx), which hands scanned text to extractVIN.    *)
(*                                                                         *)
(* A JavaScript string is a sequence of UTF-16 code units.  A code unit is *)
(* written as a one-character TLA+ string ("A", "7", "-"); a code unit     *)
(* outside ASCII is written by its code point ("U+212A").  Indices in the  *)
(* source are 0-based, sequences here are 1-based: s[i] of the source is   *)
(* s[i + 1] here.                                                          *)
(***************************************************************************)
EXTENDS Integers, Sequences, FiniteSets, TLC

VARIABLES input, edits, op, ret,
          isScanning, shownScanning, isQuaggaInitRef, streamRef,
          quaggaRunning, pendingInits, mounted, starts

\* The state of the VINScanner component and of the Quagga scanner it drives.
scannerVars == <<isScanning, shownScanning, isQuaggaInitRef, streamRef,
                 quaggaRunning, pendingInits, mounted, starts>>

vars == <<input, edits, op, ret, scannerVars>>

----------------------------------------------------------------------------
(* Code units *)

Digits == <<"0", "1", "2", "3", "4", "5", "6", "7", "8", "9">>

UpperLetters == <<"A", "B", "C", "D", "E", "F", "G", "H", "I", "J", "K", "L", "M",
                  "N", "O", "P", "Q", "R", "S", "T", "U", "V", "W", "X", "Y", "Z">>

LowerLetters == <<"a", "b", "c", "d", "e", "f", "g", "h", "i", "j", "k", "l", "m",
                  "n", "o", "p", "q", "r", "s", "t", "u", "v", "w", "x", "y", "z">>

Range(f) == {f[i] : i \in DOMAIN f}

DigitSet == Range(Digits)

UpperSet == Range(UpperLetters)

LowerSet == Range(LowerLetters)

\* ASCII punctuation that scanner and OCR output carries.
AsciiPunct == {"-", ":", "."}

\* U+0020 SPACE and U+00A0 NO-BREAK SPACE: both are WhiteSpace for trim().
AsciiSpace == {" "}

NoBreakSpace == "U+00A0"

\* U+212A KELVIN SIGN: toLowerCase gives "k", toUpperCase leaves it.
KelvinSign == "U+212A"

\* U+017F LATIN SMALL LETTER LONG S: toUpperCase gives "S".
LongS == "U+017F"

\* U+00DF LATIN SMALL LETTER SHARP S: toUpperCase gives the two units "SS".
SharpS == "U+00DF"

NonAscii == {NoBreakSpace, KelvinSign, LongS, SharpS}

Ascii == DigitSet \cup UpperSet \cup LowerSet \cup AsciiPunct \cup AsciiSpace

Chars == Ascii \cup NonAscii

\* What indexing past the end of a string yields; every use in the source
\* coerces it to the string "undefined".
Undefined == "undefined"

IndexOf(seq, c) == CHOOSE i \in DOMAIN seq : seq[i] = c

\* String.prototype.toUpperCase, per code unit: the units it becomes.
UpperOf == [c \in Chars |->
              IF c \in LowerSet THEN <<UpperLetters[IndexOf(LowerLetters, c)]>>
              ELSE IF c = LongS THEN <<"S">>
              ELSE IF c = SharpS THEN <<"S", "S">>
              ELSE <<c>>]

\* The units of s mapped one after the other and joined.
RECURSIVE MapUnits(_, _)
MapUnits(f, s) ==
  IF s = <<>> THEN <<>>
  ELSE IF \A i \in DOMAIN s : Len(f[s[i]]) = 1
  THEN [i \in DOMAIN s |-> f[s[i]][1]]
  ELSE f[Head(s)] \o MapUnits(f, Tail(s))

toUpperCase(s) == MapUnits(UpperOf, s)

\* The WhiteSpace and LineTerminator units String.prototype.trim strips.
WhiteSpace == AsciiSpace \cup {NoBreakSpace}

RECURSIVE trimStart(_)
trimStart(s) ==
  IF s # <<>> /\ Head(s) \in WhiteSpace THEN trimStart(Tail(s)) ELSE s

RECURSIVE trimEnd(_)
trimEnd(s) ==
  IF s # <<>> /\ s[Len(s)] \in WhiteSpace
  THEN trimEnd(SubSeq(s, 1, Len(s) - 1))
  ELSE s

trim(s) == trimEnd(trimStart(s))

\* s[i] of the source, i counted from 0.
At(s, i) == IF i < Len(s) THEN s[i + 1] ELSE Undefined

\* s.substring(from, to) for 0 <= from <= to <= s.length.
substring(s, from, to) == SubSeq(s, from + 1, to)

----------------------------------------------------------------------------
(* transliterate *)

\* Mutant: the letters from S on numbered 1, 2, ... as if the table did not
\* skip a value there.
map_NoSkipAtS ==
  [A |-> 1, B |-> 2, C |-> 3, D |-> 4, E |-> 5, F |-> 6, G |-> 7, H |-> 8,
   J |-> 1, K |-> 2, L |-> 3, M |-> 4, N |-> 5, P |-> 7, R |-> 9,
   S |-> 1, T |-> 2, U |-> 3, V |-> 4, W |-> 5, X |-> 6, Y |-> 7, Z |-> 8]

map == [A |-> 1, B |-> 2, C |-> 3, D |-> 4, E |-> 5, F |-> 6, G |-> 7, H |-> 8,
        J |-> 1, K |-> 2, L |-> 3, M |-> 4, N |-> 5, P |-> 7, R |-> 9,
        S |-> 2, T |-> 3, U |-> 4, V |-> 5, W |-> 6, X |-> 7, Y |-> 8, Z |-> 9]

\* The keys of map.
TableLetters == DOMAIN map

\* /[0-9]/.test(ch) for ch a single code unit or undefined.
IsDigit(ch) == ch \in DigitSet

DigitValue == [c \in DigitSet |-> IndexOf(Digits, c) - 1]

\* parseInt(ch, 10) for a digit.
parseInt(ch) == DigitValue[ch]

\* Mutant: a character outside the table counted 1 (map[ch] || 1).
transliterate_DefaultOne(ch) ==
  IF IsDigit(ch) THEN parseInt(ch)
  ELSE IF ch \in TableLetters THEN map[ch] ELSE 1

transliterate(ch) ==
  IF IsDigit(ch) THEN parseInt(ch)
  ELSE IF ch \in TableLetters THEN map[ch] ELSE 0

----------------------------------------------------------------------------
(* computeVINCheckDigit *)

\* Mutant: the check-digit slot weighted like its neighbours.
weights_SlotWeighted == <<8, 7, 6, 5, 4, 3, 2, 10, 1, 9, 8, 7, 6, 5, 4, 3, 2>>

weights == <<8, 7, 6, 5, 4, 3, 2, 10, 0, 9, 8, 7, 6, 5, 4, 3, 2>>

\* The loop of computeVINCheckDigit from index i on, sum being the running sum.
RECURSIVE checkDigitLoop(_, _, _)
checkDigitLoop(vinUpper, i, sum) ==
  IF i < 17
  THEN checkDigitLoop(vinUpper, i + 1,
                      sum + transliterate(At(vinUpper, i)) * weights[i + 1])
  ELSE sum

\* Mutant: the input not uppercased before the sum.
computeVINCheckDigit_NoUpper(vin) ==
  LET rem == checkDigitLoop(vin, 0, 0) % 11
  IN  IF rem = 10 THEN "X" ELSE Digits[rem + 1]

\* The check digit as a code unit: rem === 10 ? 'X' : String(rem).
computeVINCheckDigit(vin) ==
  LET vinUpper == toUpperCase(vin)
      rem == checkDigitLoop(vinUpper, 0, 0) % 11
  IN  IF rem = 10 THEN "X" ELSE Digits[rem + 1]

----------------------------------------------------------------------------
(* JavaScript values handed to and returned by the entry points *)

Str(s) == [type |-> "string", chars |-> s]

Null == [type |-> "null"]

Undef == [type |-> "undefined"]

Num(n) == [type |-> "number", val |-> n]

Bool(b) == [type |-> "boolean", val |-> b]

\* An uncaught exception leaving the call.
Throw(e) == [type |-> "throw", error |-> e]

\* !v
Falsy(v) ==
  \/ v.type \in {"null", "undefined"}
  \/ v.type = "string" /\ v.chars = <<>>
  \/ v.type = "number" /\ v.val = 0
  \/ v.type = "boolean" /\ ~v.val

----------------------------------------------------------------------------
(* isValidVIN *)

\* /[IOQ]/.test(s)
HasIOQ(s) == \E i \in DOMAIN s : s[i] \in {"I", "O", "Q"}

\* Mutant: the check digit looked up one position too far.
isValidVINString_Index9(chars) ==
  LET vinTrimmed == toUpperCase(trim(chars))
  IN  IF Len(vinTrimmed) # 17 THEN FALSE
      ELSE IF HasIOQ(vinTrimmed) THEN FALSE
      ELSE At(vinTrimmed, 9) = computeVINCheckDigit(vinTrimmed)

\* Mutant: the test for I, O and Q left out.
isValidVINString_NoIOQ(chars) ==
  LET vinTrimmed == toUpperCase(trim(chars))
  IN  IF Len(vinTrimmed) # 17 THEN FALSE
      ELSE At(vinTrimmed, 8) = computeVINCheckDigit(vinTrimmed)

\* The body of isValidVIN past its guard, on the code units of a string.
isValidVINString(chars) ==
  LET vinTrimmed == toUpperCase(trim(chars))
  IN  IF Len(vinTrimmed) # 17 THEN FALSE
      ELSE IF HasIOQ(vinTrimmed) THEN FALSE
      ELSE At(vinTrimmed, 8) = computeVINCheckDigit(vinTrimmed)

isValidVIN(vin) ==
  IF Falsy(vin) \/ vin.type # "string" THEN FALSE
  ELSE isValidVINString(vin.chars)

----------------------------------------------------------------------------
(* extractVIN *)

\* A unit the class [A-Za-z0-9] matches.
IsAlnum(c) == c \in DigitSet \cup UpperSet \cup LowerSet

\* Mutant: only white space stripped (/\s/g).
stripNonAlnum_OnlySpace(s) == SelectSeq(s, LAMBDA c : c \notin WhiteSpace)

\* text.replace(/[^A-Za-z0-9]/g, '')
stripNonAlnum(s) == SelectSeq(s, LAMBDA c : IsAlnum(c))

\* The window loop of extractVIN from offset i on.
RECURSIVE extractLoop(_, _)
extractLoop(cleaned, i) ==
  IF i + 17 <= Len(cleaned)
  THEN LET candidate == substring(cleaned, i, i + 17)
       IN  IF isValidVIN(Str(candidate)) THEN Str(candidate)
           ELSE extractLoop(cleaned, i + 1)
  ELSE Null

\* Mutant: the window loop started at offset 1.
extractVIN_SkipFirstWindow(text) ==
  IF text.type # "string" THEN Throw("TypeError")
  ELSE extractLoop(toUpperCase(stripNonAlnum(text.chars)), 1)

\* text.replace on a value that is no string: null and undefined have no
\* properties and a number has no replace method, a TypeError either way.
extractVIN(text) ==
  IF text.type # "string" THEN Throw("TypeError")
  ELSE extractLoop(toUpperCase(stripNonAlnum(text.chars)), 0)

\* computeVINCheckDigit as an entry point: vin.toUpperCase() on a value that
\* is no string is a TypeError.
computeVINCheckDigitCall(vin) ==
  IF vin.type # "string" THEN Throw("TypeError")
  ELSE Str(<<computeVINCheckDigit(vin.chars)>>)

----------------------------------------------------------------------------
(* The arguments the entry points are called with *)

\* The published reference VIN of the specification, check digit X.
ReferenceVIN ==
  <<"1", "H", "G", "B", "H", "4", "1", "J", "X", "M", "N", "1", "0", "9",
    "1", "8", "6">>

\* The reference VIN with its last digit altered.
AlteredVIN ==
  <<"1", "H", "G", "B", "H", "4", "1", "J", "X", "M", "N", "1", "0", "9",
    "1", "8", "7">>

\* Seventeen ones: every window of a longer run of ones is valid too.
AllOnesVIN ==
  <<"1", "1", "1", "1", "1", "1", "1", "1", "1", "1", "1", "1", "1", "1",
    "1", "1", "1">>

\* A second valid VIN, holding the letter K, check digit X.
BusVIN ==
  <<"1", "M", "8", "G", "D", "M", "9", "A", "X", "K", "P", "0", "4", "2",
    "7", "8", "8">>

\* The reference VIN in mixed case.
MixedCaseVIN ==
  <<"1", "h", "g", "b", "h", "4", "1", "J", "x", "M", "N", "1", "0", "9",
    "1", "8", "6">>

\* The reference VIN in lower case inside surrounding white space.
PaddedLowerVIN ==
  <<NoBreakSpace, " ", "1", "h", "g", "b", "h", "4", "1", "j", "x", "m", "n",
    "1", "0", "9", "1", "8", "6", " ">>

\* The label scenario of the specification.
LabelText ==
  <<"L", "a", "b", "e", "l", ":", "A", "B", "C", " ", "1", "H", "G", "B",
    "H", "4", "1", "J", "X", "M", "N", "1", "0", "9", "1", "8", "6", " ",
    "E", "n", "d">>

\* Text with no VIN.
NoVinText ==
  <<"n", "o", " ", "v", "i", "n", " ", "h", "e", "r", "e">>

\* Two valid VINs back to back.
BackToBackText ==
  <<"1", "H", "G", "B", "H", "4", "1", "J", "X", "M", "N", "1", "0", "9",
    "1", "8", "6", "1", "1", "1", "1", "1", "1", "1", "1", "1", "1", "1",
    "1", "1", "1", "1", "1", "1">>

\* Eighteen ones behind a label: the windows at offsets 3 and 4 both validate.
OverlapText ==
  <<"V", "I", "N", ":", "1", "1", "1", "1", "1", "1", "1", "1", "1", "1",
    "1", "1", "1", "1", "1", "1", "1", "1">>

\* A lower-case VIN interrupted by separators.
SeparatedText ==
  <<"1", "m", "8", "g", "d", "-", "m", "9", "a", "x", "k", "-", "p", "0",
    "4", "2", "7", "8", "8", ".">>

\* String.prototype.toLowerCase, per code unit: what a caller lowercasing its
\* text hands over.
LowerOf == [c \in Chars |->
              IF c \in UpperSet THEN <<LowerLetters[IndexOf(UpperLetters, c)]>>
              ELSE IF c = KelvinSign THEN <<"k">>
              ELSE <<c>>]

toLowerCase(s) == MapUnits(LowerOf, s)

\* The most single-unit edits between a seed and an argument.
MaxEdits == 1

Substitute(s, i, c) == [s EXCEPT ![i] = c]

InsertAt(s, i, c) == SubSeq(s, 1, i) \o <<c>> \o SubSeq(s, i + 1, Len(s))

DeleteAt(s, i) == SubSeq(s, 1, i - 1) \o SubSeq(s, i + 1, Len(s))

\* The units a VIN candidate is edited with: digits, table letters, the
\* letters format validation rejects, lower case, separators, white space and
\* units whose case mapping leaves ASCII or changes the length.
VinEditChars ==
  {"0", "X", "K", "I", "q", "-", " ", KelvinSign, LongS, SharpS}

\* The units text is interrupted with.
NoiseChars == {"-", KelvinSign}

\* The units a character of text is replaced by.
TextEditChars == {"0"}

VinEdits(s) ==
  {Substitute(s, i, c) : i \in DOMAIN s, c \in VinEditChars}
    \cup {DeleteAt(s, i) : i \in {1, Len(s)}}
    \cup {InsertAt(s, i, c) : i \in {0, Len(s)}, c \in VinEditChars}

TextEdits(s) ==
  {InsertAt(s, i, c) : i \in 0..Len(s), c \in NoiseChars}
    \cup {DeleteAt(s, i) : i \in DOMAIN s}
    \cup {Substitute(s, i, c) : i \in DOMAIN s, c \in TextEditChars}
    \cup {Substitute(s, i, LowerOf[s[i]][1]) :
            i \in {j \in DOMAIN s : LowerOf[s[j]] # <<s[j]>>}}
    \cup {Substitute(s, i, UpperOf[s[i]][1]) :
            i \in {j \in DOMAIN s : UpperOf[s[j]] # <<s[j]>>}}

VinSeeds ==
  {ReferenceVIN, AlteredVIN, AllOnesVIN, BusVIN, MixedCaseVIN, PaddedLowerVIN}

TextSeeds ==
  {LabelText, NoVinText, BackToBackText, OverlapText, SeparatedText}

\* Values that are no text, and the empty string.
NonText == {Null, Undef, Num(0), Num(17), Bool(TRUE), Str(<<>>)}

----------------------------------------------------------------------------
(* The state machine: the caller prepares an argument, starting from a seed *)
(* and editing it, and then calls one entry point with it.                  *)

NoResult == [type |-> "none"]

\* The component as first rendered: useState(false), useRef(null),
\* useRef(false); no Quagga.init issued, the scanner not running.
ScannerInit ==
  /\ isScanning = FALSE
  /\ shownScanning = FALSE
  /\ isQuaggaInitRef = FALSE
  /\ streamRef = "null"
  /\ quaggaRunning = FALSE
  /\ pendingInits = 0
  /\ mounted = TRUE
  /\ starts = 0

Init ==
  /\ input \in {Str(s) : s \in VinSeeds} \cup NonText
  /\ edits = 0
  /\ op = "none"
  /\ ret = NoResult
  /\ ScannerInit

InitText ==
  /\ input \in {Str(s) : s \in TextSeeds} \cup NonText
  /\ edits = 0
  /\ op = "none"
  /\ ret = NoResult
  /\ ScannerInit

EditVin ==
  /\ op = "none"
  /\ input.type = "string"
  /\ edits < MaxEdits
  /\ \E s \in VinEdits(input.chars) : input' = Str(s)
  /\ edits' = edits + 1
  /\ UNCHANGED <<op, ret, scannerVars>>

EditText ==
  /\ op = "none"
  /\ input.type = "string"
  /\ edits < MaxEdits
  /\ \E s \in TextEdits(input.chars) : input' = Str(s)
  /\ edits' = edits + 1
  /\ UNCHANGED <<op, ret, scannerVars>>

CallComputeVINCheckDigit ==
  /\ op = "none"
  /\ op' = "computeVINCheckDigit"
  /\ ret' = computeVINCheckDigitCall(input)
  /\ UNCHANGED <<input, edits, scannerVars>>

CallIsValidVIN ==
  /\ op = "none"
  /\ op' = "isValidVIN"
  /\ ret' = Bool(isValidVIN(input))
  /\ UNCHANGED <<input, edits, scannerVars>>

CallExtractVIN ==
  /\ op = "none"
  /\ op' = "extractVIN"
  /\ ret' = extractVIN(input)
  /\ UNCHANGED <<input, edits, scannerVars>>

Next ==
  \/ EditVin
  \/ CallComputeVINCheckDigit
  \/ CallIsValidVIN
  \/ CallExtractVIN

NextText ==
  \/ EditText
  \/ CallComputeVINCheckDigit
  \/ CallIsValidVIN
  \/ CallExtractVIN

Spec == Init /\ [][Next]_vars

SpecText == InitText /\ [][NextText]_vars

----------------------------------------------------------------------------
(* VINScanner: the barcode scanning life cycle *)

\* isScanning is the React state of the component and shownScanning the
\* value of it captured by the handlers of the last render;
\* isQuaggaInitRef and streamRef are the refs of the same names;
\* quaggaRunning is the scanner's own state: Quagga.start has been called
\* and Quagga.stop has not been called since; pendingInits counts the
\* Quagga.init calls whose completion callback has not run yet.  The
\* counters attemptsRef and successRef, the torch and the messages shown
\* decide none of this and are left out.  Quagga.stop is taken to succeed.

\* How many times startBarcodeScanning is called.
MaxStarts == 2

\* The barcode texts the decoder reports; the empty text stands for a
\* result without codeResult.code.
ScannedCodes == {LabelText, NoVinText, BackToBackText, <<>>}

InitScanner ==
  /\ input = Null
  /\ edits = 0
  /\ op = "none"
  /\ ret = NoResult
  /\ ScannerInit

\* The body of stopCamera, on the primed variables of the calling step.
stopCamera ==
  /\ quaggaRunning' = IF isQuaggaInitRef THEN FALSE ELSE quaggaRunning
  /\ isQuaggaInitRef' = FALSE
  /\ streamRef' = "null"
  /\ isScanning' = FALSE

\* A click on the button while it shows 'Start Barcode Scan':
\* startBarcodeScanning up to its await.  The state update of a click is
\* rendered before the next event.
startBarcodeScanning ==
  /\ mounted
  /\ ~shownScanning
  /\ starts < MaxStarts
  /\ starts' = starts + 1
  /\ isScanning' = TRUE
  /\ shownScanning' = TRUE
  /\ pendingInits' = pendingInits + 1
  /\ UNCHANGED <<input, edits, op, ret, isQuaggaInitRef, streamRef,
                 quaggaRunning, mounted>>

\* A click on the button while it shows 'Stop Camera'.
ClickStopCamera ==
  /\ mounted
  /\ shownScanning
  /\ stopCamera
  /\ shownScanning' = FALSE
  /\ UNCHANGED <<input, edits, op, ret, pendingInits, mounted, starts>>

\* The callback of Quagga.init without an error: the stream of the video
\* element, when there is one, goes to streamRef; the handlers are
\* registered; Quagga.start(); isQuaggaInitRef.current = true.
InitCallback ==
  /\ pendingInits > 0
  /\ pendingInits' = pendingInits - 1
  /\ \E stream \in (IF mounted THEN {"null", "stream"} ELSE {"null"}) :
       streamRef' = IF stream = "stream" THEN "stream" ELSE streamRef
  /\ quaggaRunning' = TRUE
  /\ isQuaggaInitRef' = TRUE
  /\ UNCHANGED <<input, edits, op, ret, isScanning, shownScanning, mounted,
                 starts>>

\* The callback of Quagga.init with an error: the promise is rejected and
\* the catch block of startBarcodeScanning calls stopCamera.
InitCallbackError ==
  /\ pendingInits > 0
  /\ pendingInits' = pendingInits - 1
  /\ stopCamera
  /\ UNCHANGED <<input, edits, op, ret, shownScanning, mounted, starts>>

\* The handler given to Quagga.onDetected, called by the running scanner:
\* the text is trimmed, stripped and uppercased and handed to extractVIN;
\* a VIN found stops the camera.
onDetected ==
  /\ quaggaRunning
  /\ \E code \in ScannedCodes :
       IF code = <<>>
       THEN UNCHANGED vars
       ELSE LET candidate == toUpperCase(stripNonAlnum(trim(code)))
                extractedVIN == extractVIN(Str(candidate))
            IN  /\ input' = Str(candidate)
                /\ op' = "extractVIN"
                /\ ret' = extractedVIN
                /\ IF extractedVIN # Null
                   THEN stopCamera
                   ELSE UNCHANGED <<isScanning, isQuaggaInitRef, streamRef,
                                    quaggaRunning>>
                /\ UNCHANGED <<edits, shownScanning, pendingInits, mounted,
                               starts>>

\* A render of the mounted component after a state update made outside a
\* click: the handlers now capture the current isScanning.
Render ==
  /\ mounted
  /\ shownScanning # isScanning
  /\ shownScanning' = isScanning
  /\ UNCHANGED <<input, edits, op, ret, isScanning, isQuaggaInitRef,
                 streamRef, quaggaRunning, pendingInits, mounted, starts>>

\* The cleanup of the effect on unmount calls stopCamera.
Unmount ==
  /\ mounted
  /\ mounted' = FALSE
  /\ stopCamera
  /\ UNCHANGED <<input, edits, op, ret, shownScanning, pendingInits,
                 starts>>

NextScanner ==
  \/ startBarcodeScanning
  \/ ClickStopCamera
  \/ InitCallback
  \/ InitCallbackError
  \/ onDetected
  \/ Render
  \/ Unmount

SpecScanner == InitScanner /\ [][NextScanner]_vars

----------------------------------------------------------------------------
(* Vocabulary of the properties *)

\* The VIN alphabet: 0-9 and A-Z without I, O, Q.
VinAlphabet == DigitSet \cup (UpperSet \ {"I", "O", "Q"})

OverVinAlphabet(s) == \A i \in DOMAIN s : s[i] \in VinAlphabet

\* The eleven check characters.
CheckChars == DigitSet \cup {"X"}

IsText == input.type = "string"

Called(f) == op = f

----------------------------------------------------------------------------
(* C1 *)

\* C1: for every string s of exactly 17 characters of the VIN alphabet,
\* isValidVIN(s) is true if and only if s[8] equals computeVINCheckDigit(s);
\* isValidVIN("1HGBH41JXMN109186") is true and
\* isValidVIN("1HGBH41JXMN109187") is false.
C1_ValidIffCheckDigit ==
  Called("isValidVIN") =>
    /\ (IsText /\ Len(input.chars) = 17 /\ OverVinAlphabet(input.chars))
         => ret = Bool(input.chars[9] = computeVINCheckDigit(input.chars))
    /\ input = Str(ReferenceVIN) => ret = Bool(TRUE)
    /\ input = Str(AlteredVIN) => ret = Bool(FALSE)

\* An edited candidate over the VIN alphabet that isValidVIN accepts.
C1_Witness ==
  /\ Called("isValidVIN")
  /\ IsText
  /\ edits > 0
  /\ Len(input.chars) = 17
  /\ OverVinAlphabet(input.chars)
  /\ ret = Bool(TRUE)

----------------------------------------------------------------------------
(* C2 *)

Contains(s, S) == \E i \in DOMAIN s : s[i] \in S

\* C2: isValidVIN returns false for every candidate whose trimmed, uppercased
\* form does not have exactly 17 characters, and for every candidate whose
\* trimmed, uppercased form contains I, O or Q, whether or not the character
\* at index 8 equals the computed check digit.
C2_RejectsLengthAndIOQ ==
  (Called("isValidVIN") /\ IsText) =>
    LET form == toUpperCase(trim(input.chars))
    IN  (Len(form) # 17 \/ Contains(form, {"I", "O", "Q"}))
          => ret = Bool(FALSE)

\* A 17-character candidate containing I, O or Q whose index-8 character is
\* the computed check digit, rejected.
C2_Witness ==
  /\ Called("isValidVIN")
  /\ IsText
  /\ Len(input.chars) = 17
  /\ Contains(toUpperCase(input.chars), {"I", "O", "Q"})
  /\ input.chars[9] = computeVINCheckDigit(input.chars)
  /\ ret = Bool(FALSE)

----------------------------------------------------------------------------
(* C4 *)

\* The transliteration table of the claim, letter by letter; a character it
\* does not list counts 0.
RefValue(c) ==
  CASE c \in {"1", "A", "J"} -> 1
    [] c \in {"2", "B", "K", "S"} -> 2
    [] c \in {"3", "C", "L", "T"} -> 3
    [] c \in {"4", "D", "M", "U"} -> 4
    [] c \in {"5", "E", "N", "V"} -> 5
    [] c \in {"6", "F", "W"} -> 6
    [] c \in {"7", "G", "P", "X"} -> 7
    [] c \in {"8", "H", "Y"} -> 8
    [] c \in {"9", "R", "Z"} -> 9
    [] OTHER -> 0

\* The weighted sum of the claim, position by position (1-based here).
RefSum(u) ==
  8 * RefValue(u[1]) + 7 * RefValue(u[2]) + 6 * RefValue(u[3])
    + 5 * RefValue(u[4]) + 4 * RefValue(u[5]) + 3 * RefValue(u[6])
    + 2 * RefValue(u[7]) + 10 * RefValue(u[8]) + 0 * RefValue(u[9])
    + 9 * RefValue(u[10]) + 8 * RefValue(u[11]) + 7 * RefValue(u[12])
    + 6 * RefValue(u[13]) + 5 * RefValue(u[14]) + 4 * RefValue(u[15])
    + 3 * RefValue(u[16]) + 2 * RefValue(u[17])

RefCheckDigit(v) ==
  LET r == RefSum(toUpperCase(v)) % 11
  IN  CASE r = 10 -> "X"
        [] r = 0 -> "0" [] r = 1 -> "1" [] r = 2 -> "2" [] r = 3 -> "3"
        [] r = 4 -> "4" [] r = 5 -> "5" [] r = 6 -> "6" [] r = 7 -> "7"
        [] r = 8 -> "8" [] r = 9 -> "9"

\* C4: for every 17-character input v, computeVINCheckDigit(v) is the
\* reference value: "X" when the weighted sum of the transliterated
\* characters of upper(v) is 10 modulo 11, otherwise the decimal digit of the
\* sum modulo 11; so the result is one of the 11 characters 0-9, X.
C4_CheckDigitIsReference ==
  (Called("computeVINCheckDigit") /\ IsText /\ Len(input.chars) = 17) =>
    /\ ret = Str(<<RefCheckDigit(input.chars)>>)
    /\ ret.type = "string" /\ Len(ret.chars) = 1 /\ ret.chars[1] \in CheckChars

\* An edited 17-character input holding lower case whose check digit is X.
C4_Witness ==
  /\ Called("computeVINCheckDigit")
  /\ IsText
  /\ edits > 0
  /\ Len(input.chars) = 17
  /\ Contains(input.chars, LowerSet)
  /\ ret = Str(<<"X">>)

----------------------------------------------------------------------------
(* C5 *)

IsVinOrNull(v) ==
  \/ v = Null
  \/ v.type = "string" /\ Len(v.chars) = 17

\* C5 as stated: for every input value, null, undefined and non-string
\* values included, isValidVIN returns a boolean (false for absent or
\* non-text input) and extractVIN returns a VIN or null; neither throws.
C5_NeverThrows ==
  /\ Called("isValidVIN") =>
       /\ ret.type = "boolean"
       /\ ~IsText => ret = Bool(FALSE)
  /\ Called("extractVIN") => IsVinOrNull(ret)

----------------------------------------------------------------------------
(* C6 *)

\* C6 as stated: isValidVIN returns false whenever the trimmed, uppercased
\* candidate contains a character outside the VIN alphabet, whatever the
\* checksum; every candidate it accepts is, trimmed and uppercased, 17
\* characters of the VIN alphabet.
C6_RejectsDisallowedCharacters ==
  (Called("isValidVIN") /\ IsText) =>
    LET form == toUpperCase(trim(input.chars))
    IN  /\ ~OverVinAlphabet(form) => ret = Bool(FALSE)
        /\ ret = Bool(TRUE) => (Len(form) = 17 /\ OverVinAlphabet(form))

----------------------------------------------------------------------------
(* C7 *)

IsAscii(s) == \A i \in DOMAIN s : s[i] \in Ascii

\* C7 as stated: for every 17-character string s the check digit of s, of
\* lowercase(s) and of uppercase(s) are the same, and for every string s
\* isValidVIN(s) = isValidVIN(lowercase(s)).
C7_CaseInsensitive ==
  /\ (Called("computeVINCheckDigit") /\ IsText /\ Len(input.chars) = 17) =>
       /\ ret = computeVINCheckDigitCall(Str(toLowerCase(input.chars)))
       /\ ret = computeVINCheckDigitCall(Str(toUpperCase(input.chars)))
  /\ (Called("isValidVIN") /\ IsText) =>
       ret = Bool(isValidVIN(Str(toLowerCase(input.chars))))

\* C7 amended: for every 17-character string s the check digit of s and of
\* uppercase(s) are the same, and when s is ASCII so is that of lowercase(s);
\* for every ASCII string s, isValidVIN(s) = isValidVIN(lowercase(s)).
C7_CaseInsensitiveOnAscii ==
  /\ (Called("computeVINCheckDigit") /\ IsText /\ Len(input.chars) = 17) =>
       /\ IsAscii(input.chars) =>
            ret = computeVINCheckDigitCall(Str(toLowerCase(input.chars)))
       /\ ret = computeVINCheckDigitCall(Str(toUpperCase(input.chars)))
  /\ (Called("isValidVIN") /\ IsText /\ IsAscii(input.chars)) =>
       ret = Bool(isValidVIN(Str(toLowerCase(input.chars))))

\* The check digit of a 17-character ASCII string of mixed case, which both
\* lowercase and uppercase change.
C7_Witness ==
  /\ Called("computeVINCheckDigit")
  /\ IsText
  /\ Len(input.chars) = 17
  /\ IsAscii(input.chars)
  /\ Contains(input.chars, LowerSet \ {"i", "o", "q"})
  /\ Contains(input.chars, UpperSet \ {"I", "O", "Q"})

----------------------------------------------------------------------------
(* C8 *)

\* The characters the claim names: I, O, Q and every non-alphanumeric one.
Unlisted(c) == c \in {"I", "O", "Q"} \/ ~IsAlnum(c)

\* Those among them that toUpperCase leaves outside the digits and the table.
UnlistedUppercased(c) ==
  /\ Unlisted(c)
  /\ Len(UpperOf[c]) = 1
  /\ UpperOf[c][1] \notin DigitSet \cup TableLetters

\* s with each of its characters that satisfies P replaced by "0".
ZeroedWhere(s, P(_)) == [i \in DOMAIN s |-> IF P(s[i]) THEN "0" ELSE s[i]]

----------------------------------------------------------------------------
(* C10 *)

\* toUpperCase maps c to a single character.
SingleUnit(c) == Len(UpperOf[c]) = 1

\* s with the character at index 8 replaced by c.
WithSlot(s, c) == Substitute(s, 9, c)

\* The part of the claim about candidates over the VIN alphabet: the computed
\* check digit written into index 8 makes the candidate valid, and it is the
\* only one of the 11 check characters that does.
SlotDecidesValidity(s, digit) ==
  OverVinAlphabet(s) =>
    /\ isValidVIN(Str(WithSlot(s, digit)))
    /\ Cardinality({c \in CheckChars : isValidVIN(Str(WithSlot(s, c)))}) = 1

\* C10 as stated: for every 17-character string s, computeVINCheckDigit(s)
\* is unchanged when the character at index 8 is replaced by any other
\* character (here: each of the characters candidates are edited with); for s over the VIN alphabet, writing the check digit into index
\* 8 yields a valid VIN, and exactly one of 0-9, X at index 8 does.
C10_SlotDoesNotFeedCheckDigit ==
  (Called("computeVINCheckDigit") /\ IsText /\ Len(input.chars) = 17) =>
    /\ \A c \in VinEditChars :
         computeVINCheckDigitCall(Str(WithSlot(input.chars, c))) = ret
    /\ SlotDecidesValidity(input.chars, ret.chars[1])

\* C10 amended: for every 17-character string s of characters that
\* toUpperCase maps to single characters, computeVINCheckDigit(s) is
\* unchanged when the character at index 8 is replaced by any other such
\* character; the part about the VIN alphabet as stated.
C10_SlotDoesNotFeedCheckDigitOfSingleUnits ==
  (Called("computeVINCheckDigit") /\ IsText /\ Len(input.chars) = 17) =>
    /\ (\A i \in DOMAIN input.chars : SingleUnit(input.chars[i])) =>
         \A c \in VinEditChars :
           SingleUnit(c) =>
             computeVINCheckDigitCall(Str(WithSlot(input.chars, c))) = ret
    /\ SlotDecidesValidity(input.chars, ret.chars[1])

\* The check digit of an edited candidate over the VIN alphabet whose index 8
\* holds another character than the check digit.
C10_Witness ==
  /\ Called("computeVINCheckDigit")
  /\ IsText
  /\ edits > 0
  /\ Len(input.chars) = 17
  /\ OverVinAlphabet(input.chars)
  /\ input.chars[9] # ret.chars[1]

----------------------------------------------------------------------------
(* C3 *)

\* t stripped of every character that is not alphanumeric, uppercased.
RECURSIVE Alnums(_)
Alnums(t) ==
  IF t = <<>> THEN <<>>
  ELSE IF Head(t) \in DigitSet \cup UpperSet \cup LowerSet
  THEN <<Head(t)>> \o Alnums(Tail(t))
  ELSE Alnums(Tail(t))

Normalized(t) == toUpperCase(Alnums(t))

\* The 17-character window of c at offset i (0-based).
Window(c, i) == SubSeq(c, i + 1, i + 17)

\* The offsets of the windows of c that isValidVIN accepts.
ValidOffsets(c) ==
  {i \in 0..(Len(c) - 17) : isValidVIN(Str(Window(c, i)))}

Least(S) == CHOOSE i \in S : \A j \in S : i <= j

\* C3: with c the text stripped of non-alphanumeric characters and
\* uppercased, extractVIN returns the window of c at the smallest offset
\* whose window isValidVIN accepts, and null exactly when there is none
\* (so also when c is shorter than 17).
C3_LeftmostValidWindow ==
  (Called("extractVIN") /\ IsText) =>
    LET c == Normalized(input.chars)
        valid == ValidOffsets(c)
    IN  IF valid = {} THEN ret = Null
        ELSE ret = Str(Window(c, Least(valid)))

\* An edited text with several valid windows, the leftmost of them not at
\* offset 0.
C3_Witness ==
  /\ Called("extractVIN")
  /\ IsText
  /\ edits > 0
  /\ LET valid == ValidOffsets(Normalized(input.chars))
     IN  Cardinality(valid) >= 2 /\ 0 \notin valid
  /\ ret.type = "string"

\* A text shorter than 17 characters once stripped: null.
C3_WitnessShort ==
  /\ Called("extractVIN")
  /\ IsText
  /\ Len(Normalized(input.chars)) < 17
  /\ ret = Null

----------------------------------------------------------------------------
(* C9 *)

\* t2 is t1 with one non-alphanumeric character inserted.
InsertsSeparator(t1, t2) ==
  /\ Len(t2) = Len(t1) + 1
  /\ \E i \in DOMAIN t2 : ~IsAlnum(t2[i]) /\ DeleteAt(t2, i) = t1

\* t2 is t1 with the case of one letter A-Z, a-z changed.
ChangesCase(t1, t2) ==
  /\ Len(t2) = Len(t1)
  /\ \E i \in DOMAIN t1 :
       /\ t2 = Substitute(t1, i, t2[i])
       /\ \/ t1[i] \in LowerSet /\ <<t2[i]>> = UpperOf[t1[i]]
          \/ t1[i] \in UpperSet /\ <<t2[i]>> = LowerOf[t1[i]]

\* One step of the edits the claim names.
KeepsNormalizedText(t1, t2) ==
  \/ InsertsSeparator(t1, t2)
  \/ InsertsSeparator(t2, t1)
  \/ ChangesCase(t1, t2)

IsInfix(a, b) == \E i \in 0..(Len(b) - Len(a)) : SubSeq(b, i + 1, i + Len(a)) = a

\* What the claim says of a result: 17 uppercase alphanumeric characters, and
\* the label and separator scenarios.
C9_Results ==
  Called("extractVIN") =>
    /\ ret.type = "string" =>
         /\ Len(ret.chars) = 17
         /\ \A i \in 1..17 : ret.chars[i] \in DigitSet \cup UpperSet
    /\ input = Str(LabelText) => ret = Str(ReferenceVIN)
    /\ input = Str(SeparatedText) => ret = Str(BusVIN)

\* What the claim says of an edit of the text t into t2.
C9_Edits ==
  (IsText /\ input'.type = "string" /\ KeepsNormalizedText(input.chars, input'.chars))
    => extractVIN(input') = extractVIN(input)

\* C9: extractVIN depends only on the normalized text: inserting or deleting
\* non-alphanumeric characters at any positions, or changing the case of
\* letters (A-Z, a-z), leaves its result unchanged; every non-null result is
\* 17 uppercase alphanumeric characters, and
\* extractVIN("Label:ABC 1HGBH41JXMN109186 End") = "1HGBH41JXMN109186".
C9_DependsOnNormalizedText == [][C9_Edits]_vars /\ []C9_Results

\* A VIN returned from an edited text in which its characters are not
\* adjacent.
C9_Witness ==
  /\ Called("extractVIN")
  /\ IsText
  /\ edits > 0
  /\ ret.type = "string"
  /\ ~IsInfix(ret.chars, toUpperCase(input.chars))

----------------------------------------------------------------------------
(* C11 *)

\* C11 as stated: under every interleaving of startBarcodeScanning,
\* stopCamera (unmount included) and the completion callback of
\* Quagga.init, whenever the scanner has been started and not stopped
\* (Quagga.start called, isQuaggaInitRef true), isScanning is true.
C11_RunningImpliesScanning ==
  (quaggaRunning /\ isQuaggaInitRef) => isScanning

=============================================================================
